---- MODULE Spec2Model ----
(***************************************************************************)
(* Model of klee/lib/Solver/Z3IteBuilder.cpp: the builder that turns a     *)
(* read of a byte array under an update chain into a nested if-then-else   *)
(* expression, with its two caches read_map_ and array_variables_.         *)
(*                                                                         *)
(* Z3 expressions are modelled as terms (tuples).  A Z3 context hash-conses *)
(* its ASTs, so two handles denote the same expression object exactly when *)
(* the terms are equal.                                                    *)
(*   <<"bv", v, w>>        the numeral v of width w                        *)
(*   <<"const", name, w>>  the symbolic constant called name, of width w   *)
(*   <<"eq", a, b>>        a == b                                          *)
(*   <<"ite", c, t, e>>    if c then t else e                              *)
(* KLEE expressions held by update nodes and read expressions are          *)
(*   <<"Constant", v, w>>  and  <<"Sym", name, w>>                         *)
(* Strings are tuples of one-character strings.                            *)
(***************************************************************************)
EXTENDS Integers, Sequences, FiniteSets, TLC

(***************************************************************************)
(* The caller's immutable objects:                                         *)
(*   arrays   the Array descriptor at each address: name, size,            *)
(*            isConstantArray and constantValues                           *)
(*   nodes    the UpdateNode at each address: index, value, next           *)
(*   indices  the index expressions of the session's read expressions      *)
(* The builder:                                                            *)
(*   read_map_         (index, root, un) -> the expression resolved        *)
(*   array_variables_  root -> the leaf vector of the array                *)
(* What the last operation did:                                            *)
(*   call     the operation and its arguments                              *)
(*   result   the expression it returned                                   *)
(*   builds   root -> how often this builder has run the build path of     *)
(*            getArrayValues for root                                      *)
(*   previous array_variables_ of the builder this one replaced            *)
(* Threads that share the builder (idle unless the session is concurrent): *)
(*   threads  thread -> where its call of getReadForArray stands: pc, the  *)
(*            arguments index, root, un, the node cur of the innermost     *)
(*            frame, the nodes of the frames waiting for it, the           *)
(*            expression acc returned so far, the leaf vector it built,    *)
(*            and whether the outermost lookup was a hit                   *)
(***************************************************************************)
VARIABLES arrays, nodes, indices, read_map_, array_variables_, result, call,
          builds, previous, threads

vars == <<arrays, nodes, indices, read_map_, array_variables_, result, call,
          builds, previous, threads>>

world == <<arrays, nodes, indices>>

(* ---------------------------------------------------------------- bounds *)

\* largest declared array size
MaxSize == 2

\* number of update nodes of the chain
MaxNodes == 2

(* ------------------------------------------------------ program constants *)

\* char buf[256]
BufSize == 256

\* width of a leaf and of an update value: bv_val(.., 8), bv_const(buf, 8)
ByteWidth == 8

\* width of an index: bv_val(i, 32)
IndexWidth == 32

\* the null UpdateNode pointer: the end of an update chain
NULL == 0

(* ------------------------------------------------------------- Z3 terms *)

\* the numeral n reduced to w bits; every natural of the model is below 2^31,
\* so a width above 30 bits reduces nothing
bv_val(n, w) == <<"bv", IF w < 31 THEN n % (2 ^ w) ELSE n, w>>

bv_const(name, w) == <<"const", name, w>>

mk_eq(a, b) == <<"eq", a, b>>

Z3_mk_ite(c, t, e) == <<"ite", c, t, e>>

\* Z3Builder::getOrMakeExpr on the two kinds of KLEE expression of the model:
\* a ConstantExpr becomes the numeral of its width, a symbolic expression the
\* constant that stands for it.  Neither touches read_map_ or array_variables_,
\* so the order in which line 81-84 evaluates its arguments changes nothing.
getOrMakeExpr(e) ==
    IF e[1] = "Constant" THEN bv_val(e[2], e[3]) ELSE bv_const(e[2], e[3])

(* ------------------------------------------------------------ formatting *)

Digits == <<"0", "1", "2", "3", "4", "5", "6", "7", "8", "9", "a", "b", "c", "d", "e", "f">>

RECURSIVE FormatUnsigned(_, _)
FormatUnsigned(n, base) ==
    IF n < base THEN <<Digits[n + 1]>>
    ELSE Append(FormatUnsigned(n \div base, base), Digits[(n % base) + 1])

\* %u
FormatU(n) == FormatUnsigned(n, 10)

\* %p of a non-null pointer
FormatP(p) == <<"0", "x">> \o FormatUnsigned(p, 16)

\* mutant: the leaf is named after the number of arrays cached so far instead
\* of the array's address
snprintf_counter(size, name, root, i) ==
    LET full == name \o <<"_">> \o FormatP(Cardinality(DOMAIN array_variables_))
                    \o <<"_">> \o FormatU(i)
    IN  IF Len(full) <= size - 1 THEN full ELSE SubSeq(full, 1, size - 1)

\* snprintf(buf, sizeof(buf), "%s_%p_%u", name, root, i): at most
\* sizeof(buf) - 1 characters are kept
snprintf(size, name, root, i) ==
    LET full == name \o <<"_">> \o FormatP(root) \o <<"_">> \o FormatU(i)
    IN  IF Len(full) <= size - 1 THEN full ELSE SubSeq(full, 1, size - 1)

(* ----------------------------------------------------------------- world *)

\* addresses of the Array descriptors
ArrayPtrs == {16, 32}

NodePtrs == 1 .. MaxNodes

Names == {<<"A">>}

\* constantValues of a constant array of the given size: distinct non-zero
\* bytes, the largest byte first
ConstantValues(size) == { [i \in 1 .. size |-> 256 - i] }

ArrayDescs ==
    UNION { { [name |-> n, size |-> s, isConstantArray |-> TRUE, constantValues |-> cv]
                : cv \in ConstantValues(s) }
            \cup { [name |-> n, size |-> s, isConstantArray |-> FALSE, constantValues |-> <<>>] }
          : n \in Names, s \in 0 .. MaxSize }

\* index expressions of update nodes and of reads
ConcreteIndex(k) == <<"Constant", k, IndexWidth>>

SymbolicIndex == <<"Sym", <<"x">>, IndexWidth>>

\* the index written by update node n: along the chain the write indices
\* alternate between the concrete index 0 and the symbolic index
NodeIndex(n, p) == IF (n + p) % 2 = 0 THEN ConcreteIndex(0) ELSE SymbolicIndex

\* the value written by update node n
NodeValue(n) == <<"Constant", 90 + n, ByteWidth>>

(* ------------------------------------------------------- getArrayValues *)

\* mutant: the map is assigned the new entry instead of being added to
insert_evict(map, key, value) == key :> value

\* std::map::insert: an existing entry is kept
insert(map, key, value) == map @@ (key :> value)

\* the leaves of a constant array: one numeral per offset
constant_leaves(root) ==
    [i \in 1 .. arrays[root].size |-> bv_val(arrays[root].constantValues[i], ByteWidth)]

\* mutant: the loop runs one offset too far
symbolic_leaves_extra(root) ==
    [i \in 1 .. arrays[root].size + 1 |->
        bv_const(snprintf(BufSize, arrays[root].name, root, i - 1), ByteWidth)]

\* the leaves of a symbolic array: one named constant per offset
symbolic_leaves(root) ==
    [i \in 1 .. arrays[root].size |->
        bv_const(snprintf(BufSize, arrays[root].name, root, i - 1), ByteWidth)]

\* mutant: the vector is built without looking the array up first
getArrayValues_no_lookup(root, av) ==
    LET elem_vector ==
            IF arrays[root].isConstantArray
            THEN constant_leaves(root)
            ELSE symbolic_leaves(root)
    IN  [result |-> elem_vector,
         array_variables |-> insert(av, root, elem_vector),
         built |-> TRUE]

getArrayValues(root, av) ==
    IF root \in DOMAIN av
    THEN [result |-> av[root], array_variables |-> av, built |-> FALSE]
    ELSE LET elem_vector ==
                 IF arrays[root].isConstantArray
                 THEN constant_leaves(root)
                 ELSE symbolic_leaves(root)
         IN  [result |-> elem_vector,
              array_variables |-> insert(av, root, elem_vector),
              built |-> TRUE]

(* ----------------------------------------------- getReadForInitialArray *)

\* the loop of getReadForInitialArray after its first n iterations
RECURSIVE ite_tree(_, _, _)

\* mutant: offset i is compared with i + 1
ite_tree_off_by_one(index, elem_vector, n) ==
    IF n = 0 THEN bv_val(0, ByteWidth)
    ELSE Z3_mk_ite(mk_eq(index, bv_val(n, IndexWidth)),
                   elem_vector[n],
                   ite_tree(index, elem_vector, n - 1))

\* mutant: the innermost default is the last offset's leaf
ite_tree_last_default(index, elem_vector, n) ==
    IF n = 0
    THEN IF Len(elem_vector) = 0 THEN bv_val(0, ByteWidth)
         ELSE elem_vector[Len(elem_vector)]
    ELSE Z3_mk_ite(mk_eq(index, bv_val(n - 1, IndexWidth)),
                   elem_vector[n],
                   ite_tree(index, elem_vector, n - 1))

\* mutant: the index is compared with the offset as an expression object when
\* the tree is built, instead of by an equality the solver evaluates
ite_tree_folded(index, elem_vector, n) ==
    IF n = 0 THEN bv_val(0, ByteWidth)
    ELSE IF index = bv_val(n - 1, IndexWidth)
         THEN elem_vector[n]
         ELSE ite_tree(index, elem_vector, n - 1)

\* mutant: the loop leaves offset 0 out
ite_tree_skip(index, elem_vector, n) ==
    IF n <= 1 THEN bv_val(0, ByteWidth)
    ELSE Z3_mk_ite(mk_eq(index, bv_val(n - 1, IndexWidth)),
                   elem_vector[n],
                   ite_tree(index, elem_vector, n - 1))

\* mutant: the loop runs from the last offset down to the first, so that
\* offset 0 is compared outermost
ite_tree_ascending(index, elem_vector, n) ==
    IF n = 0 THEN bv_val(0, ByteWidth)
    ELSE Z3_mk_ite(mk_eq(index, bv_val(Len(elem_vector) - n, IndexWidth)),
                   elem_vector[Len(elem_vector) - n + 1],
                   ite_tree(index, elem_vector, n - 1))

ite_tree(index, elem_vector, n) ==
    IF n = 0 THEN bv_val(0, ByteWidth)
    ELSE Z3_mk_ite(mk_eq(index, bv_val(n - 1, IndexWidth)),
                   elem_vector[n],
                   ite_tree(index, elem_vector, n - 1))

getReadForInitialArray(index, root, av) ==
    LET got == getArrayValues(root, av)
    IN  [result |-> ite_tree(index, got.result, arrays[root].size),
         array_variables |-> got.array_variables,
         built |-> got.built]

(* ------------------------------------------------------ getReadForArray *)

\* mutant: the key leaves the index out
ReadKey_no_index(index, root, un) == <<bv_val(0, IndexWidth), root, un>>

\* mutant: the key leaves the update node out
ReadKey_no_un(index, root, un) == <<index, root, NULL>>

\* the key of read_map_: (index, (root, un))
ReadKey(index, root, un) == <<index, root, un>>

\* mutant: the branches of the conditional are swapped
ite_update_swapped(index, un, rest) ==
    Z3_mk_ite(mk_eq(index, getOrMakeExpr(nodes[un].index)),
              rest,
              getOrMakeExpr(nodes[un].value))

\* the conditional for a real update node un over the read of the rest of the chain
ite_update(index, un, rest) ==
    Z3_mk_ite(mk_eq(index, getOrMakeExpr(nodes[un].index)),
              getOrMakeExpr(nodes[un].value),
              rest)

\* depth: the number of nested frames of getReadForArray the call needs
RECURSIVE getReadForArray(_, _, _, _, _)
getReadForArray(index, root, un, rm, av) ==
    LET key == ReadKey(index, root, un)
    IN  IF key \in DOMAIN rm
        THEN [result |-> rm[key], read_map |-> rm, array_variables |-> av,
              built |-> FALSE, depth |-> 1]
        ELSE LET sub ==
                   IF un = NULL
                   THEN LET base == getReadForInitialArray(index, root, av)
                        IN  [result |-> base.result, read_map |-> rm,
                             array_variables |-> base.array_variables,
                             built |-> base.built, depth |-> 1]
                   ELSE LET rest == getReadForArray(index, root, nodes[un].next, rm, av)
                        IN  [result |-> ite_update(index, un, rest.result),
                             read_map |-> rest.read_map,
                             array_variables |-> rest.array_variables,
                             built |-> rest.built, depth |-> 1 + rest.depth]
             IN  [result |-> sub.result,
                  read_map |-> insert(sub.read_map, key, sub.result),
                  array_variables |-> sub.array_variables,
                  built |-> sub.built, depth |-> sub.depth]

(* ------------------------------------------------------------ operations *)

\* builds[root]: how many times this builder has built the leaf vector of root
Count(root, got) ==
    IF got.built THEN [builds EXCEPT ![root] = @ + 1] ELSE builds

\* the threads of a concurrent session
Threads == {1, 2}

Idle == [pc |-> "idle"]

Init ==
    /\ threads = [t \in Threads |-> Idle]
    /\ arrays \in [ArrayPtrs -> ArrayDescs]
    /\ arrays[32] = [name |-> <<"A">>, size |-> MaxSize, isConstantArray |-> FALSE,
                      constantValues |-> <<>>]
    /\ nodes \in { [n \in NodePtrs |-> [index |-> NodeIndex(n, p),
                                         value |-> NodeValue(n),
                                         next |-> n - 1]] : p \in {0, 1} }
    /\ indices \in { {ConcreteIndex(k), SymbolicIndex} : k \in 0 .. MaxSize }
    /\ read_map_ = <<>>
    /\ array_variables_ = <<>>
    /\ result = <<>>
    /\ call = <<"Z3IteBuilder">>
    /\ builds = [a \in ArrayPtrs |-> 0]
    /\ previous = <<>>

\* a new builder: both caches start empty; previous keeps the leaf vectors of
\* the builder it replaces
Z3IteBuilder ==
    /\ call # <<"Z3IteBuilder">>
    /\ read_map_' = <<>>
    /\ array_variables_' = <<>>
    /\ result' = <<>>
    /\ call' = <<"Z3IteBuilder">>
    /\ builds' = [a \in ArrayPtrs |-> 0]
    /\ previous' = array_variables_
    /\ UNCHANGED <<world, threads>>

\* the callers pass an offset of the array: index < root->size
getInitialRead(root, index) ==
    LET got == getArrayValues(root, array_variables_)
    IN  /\ index < arrays[root].size
        /\ array_variables_' = got.array_variables
        /\ result' = got.result[index + 1]
        /\ call' = <<"getInitialRead", root, index>>
        /\ builds' = Count(root, got)
        /\ UNCHANGED <<world, read_map_, previous, threads>>

\* re: a ReadExpr [index, updates: [root, head]]
makeReadExpr(re) ==
    LET index == getOrMakeExpr(re.index)
        got == getReadForArray(index, re.updates.root, re.updates.head,
                               read_map_, array_variables_)
    IN  /\ read_map_' = got.read_map
        /\ array_variables_' = got.array_variables
        /\ result' = got.result
        /\ call' = <<"getReadForArray", index, re.updates.root, re.updates.head>>
        /\ builds' = Count(re.updates.root, got)
        /\ UNCHANGED <<world, previous, threads>>

\* the update lists of the session: the chain is over the array at 16
UpdateLists == { [root |-> 16, head |-> h] : h \in NodePtrs \cup {NULL} }

\* the read expressions of the session: the array at 16 is read at both
\* indices under every update list, the array at 32 at the symbolic index
ReadExprs ==
    { [index |-> i, updates |-> ul] : i \in indices, ul \in UpdateLists }
        \cup { [index |-> SymbolicIndex, updates |-> [root |-> 32, head |-> NULL]] }

Next ==
    \/ Z3IteBuilder
    \/ \E root \in ArrayPtrs, index \in 0 .. MaxSize - 1 : getInitialRead(root, index)
    \/ \E re \in ReadExprs : makeReadExpr(re)

Spec == Init /\ [][Next]_vars

(* ------------------------------------------------- meaning of Z3 terms *)

\* the symbolic constants of a term
RECURSIVE SymsOf(_)
SymsOf(e) ==
    CASE e[1] = "bv" -> {}
      [] e[1] = "const" -> {e}
      [] e[1] = "eq" -> SymsOf(e[2]) \cup SymsOf(e[3])
      [] e[1] = "ite" -> SymsOf(e[2]) \cup SymsOf(e[3]) \cup SymsOf(e[4])

\* values an assignment gives to an index and to a byte
IndexVals == 0 .. MaxSize

ByteVals == {0, 5}

\* the assignments of the symbolic constants in S
Assignments(S) ==
    LET I == { s \in S : s[3] = IndexWidth }
    IN  { i @@ b : i \in [I -> IndexVals], b \in [S \ I -> ByteVals] }

\* the value of a term under an assignment: a number, or a truth value for "eq"
RECURSIVE Eval(_, _)
Eval(e, asg) ==
    CASE e[1] = "bv" -> e[2]
      [] e[1] = "const" -> asg[e]
      [] e[1] = "eq" -> Eval(e[2], asg) = Eval(e[3], asg)
      [] e[1] = "ite" -> IF Eval(e[2], asg) THEN Eval(e[3], asg) ELSE Eval(e[4], asg)

\* the last operation was getReadForArray(index, root, un)
IsRead == call[1] = "getReadForArray"

\* the symbolic constants a read of root can mention, and those of the result
ReadSyms(root) ==
    {getOrMakeExpr(SymbolicIndex)}
        \cup (IF root \in DOMAIN array_variables_
              THEN UNION { SymsOf(array_variables_[root][i])
                             : i \in DOMAIN array_variables_[root] }
              ELSE {})
        \cup SymsOf(result)

\* the newest update node from un on whose write index has the value iv, or NULL
RECURSIVE NewestWrite(_, _, _)
NewestWrite(iv, un, asg) ==
    IF un = NULL THEN NULL
    ELSE IF Eval(getOrMakeExpr(nodes[un].index), asg) = iv THEN un
    ELSE NewestWrite(iv, nodes[un].next, asg)

(* ---------------------------------------------------------------- claims *)

\* C1: read-over-write.  Under every assignment the expression returned by
\* getReadForArray(index, root, un) has the value of the newest update node
\* from un on whose write index has the value of index; when no node's index
\* has that value and it is below the array's size, it has the value of the
\* array's leaf at that offset.
C1_ReadOverWrite ==
    IsRead =>
        LET index == call[2]
            root == call[3]
        IN  \A asg \in Assignments(ReadSyms(root)) :
                LET iv == Eval(index, asg)
                    w == NewestWrite(iv, call[4], asg)
                IN  IF w # NULL
                    THEN Eval(result, asg) = Eval(getOrMakeExpr(nodes[w].value), asg)
                    ELSE iv < arrays[root].size =>
                            /\ root \in DOMAIN array_variables_
                            /\ Eval(result, asg) = Eval(array_variables_[root][iv + 1], asg)

\* C1 witness: a read at the concrete index 0 from the head of a chain of two
\* nodes whose newest node writes the symbolic index and whose older node
\* writes index 0, over a symbolic array that has offset 0
C1_Witness ==
    /\ IsRead
    /\ call[2] = getOrMakeExpr(ConcreteIndex(0))
    /\ call[3] = 16
    /\ call[4] = 2
    /\ nodes[2].index = SymbolicIndex
    /\ nodes[1].index = ConcreteIndex(0)
    /\ ~arrays[16].isConstantArray
    /\ arrays[16].size = MaxSize

\* C2: for a constant array and no updates, the expression returned for a
\* concrete index k below the array's size has the value constantValues[k].
C2_ConstantRead ==
    (/\ IsRead
     /\ call[4] = NULL
     /\ call[2][1] = "bv"
     /\ arrays[call[3]].isConstantArray
     /\ call[2][2] < arrays[call[3]].size)
        => Eval(result, <<>>) = arrays[call[3]].constantValues[call[2][2] + 1]

\* C2 witness: such a read at the last offset of a constant array of the
\* largest size
C2_Witness ==
    /\ IsRead
    /\ call[4] = NULL
    /\ arrays[call[3]].isConstantArray
    /\ arrays[call[3]].size = MaxSize
    /\ call[2] = bv_val(MaxSize - 1, IndexWidth)
    /\ result # <<>>


\* C3: sharing.  A call of getReadForArray leaves its key (index, root, un) in
\* read_map_ mapped to the expression it returns, and when the key was in
\* read_map_ before the call, the call returns the expression stored there.
C3_Sharing ==
    [][ call'[1] = "getReadForArray" =>
            LET key == <<call'[2], call'[3], call'[4]>>
            IN  /\ key \in DOMAIN read_map_'
                /\ result' = read_map_'[key]
                /\ key \in DOMAIN read_map_ => result' = read_map_[key] ]_vars

\* C3 witness: the base read of the array at 16 is asked for again after the
\* reads of the whole chain at both indices were resolved (the key of the head
\* of the chain is only ever inserted after the key of the base read)
C3_Witness ==
    /\ IsRead
    /\ call[3] = 16
    /\ call[4] = NULL
    /\ \A i \in indices : <<getOrMakeExpr(i), 16, MaxNodes>> \in DOMAIN read_map_

\* C4: read_map_ is monotonic.  In every step of a builder every key of
\* read_map_ stays in it, mapped to the same expression.
C4_Monotonic ==
    [][ call' # <<"Z3IteBuilder">> =>
            \A k \in DOMAIN read_map_ :
                k \in DOMAIN read_map_' /\ read_map_'[k] = read_map_[k] ]_vars

\* C4 witness: a read has just been resolved into a cache that holds the whole
\* chain at both indices and the read of the array at 32
C4_Witness ==
    /\ IsRead
    /\ Cardinality(DOMAIN read_map_) = 2 * (MaxNodes + 1) + 1

\* the last operation was a read of root with no updates
IsBaseRead(root) == IsRead /\ call[3] = root /\ call[4] = NULL

C7_LeafVectorLength ==
    \A root \in DOMAIN array_variables_ :
        Len(array_variables_[root]) = arrays[root].size

\* C7 witness: the leaf vectors of an array of size 0 and of a symbolic array
\* of the largest size are both cached
C7_Witness ==
    /\ DOMAIN array_variables_ = ArrayPtrs
    /\ arrays[16].size = 0
    /\ arrays[32].size = MaxSize

\* the then-branches of a conditional chain
RECURSIVE ThenBranches(_)
ThenBranches(e) ==
    IF e[1] = "ite" THEN {e[3]} \cup ThenBranches(e[4]) ELSE {}

\* C8: a builder builds the leaf vector of an array at most once.  An array is
\* in array_variables_ exactly when its vector was built once, a step of the
\* builder leaves every cached vector as it is without building it again, and
\* the leaves of every base read in read_map_ are those of the cached vector.
C8_BuiltOnce ==
    [][ call' # <<"Z3IteBuilder">> =>
            /\ \A a \in ArrayPtrs :
                    /\ builds'[a] <= 1
                    /\ builds'[a] = 1 <=> a \in DOMAIN array_variables_'
            /\ \A a \in DOMAIN array_variables_ :
                    /\ a \in DOMAIN array_variables_'
                    /\ array_variables_'[a] = array_variables_[a]
                    /\ builds'[a] = builds[a]
            /\ \A k \in DOMAIN read_map_' :
                    k[3] = NULL =>
                        /\ k[2] \in DOMAIN array_variables_'
                        /\ ThenBranches(read_map_'[k]) =
                               { array_variables_'[k[2]][i]
                                   : i \in 1 .. arrays[k[2]].size } ]_vars

\* C8 witness: the array at 16 was built once and its base read is cached for
\* both indices, the last of them reached from the head of the chain
C8_Witness ==
    /\ builds[16] = 1
    /\ arrays[16].size = MaxSize
    /\ IsRead /\ call[3] = 16 /\ call[4] = MaxNodes
    /\ \A i \in indices : <<getOrMakeExpr(i), 16, NULL>> \in DOMAIN read_map_

\* C9: for a symbolic array, the expressions resolved for two different index
\* expressions and the same array and update node have the same value under
\* every assignment that gives the two indices the same value.
C9_IndexByValue ==
    \A k1, k2 \in DOMAIN read_map_ :
        (/\ k1[1] # k2[1]
         /\ k1[2] = k2[2]
         /\ k1[3] = k2[3]
         /\ ~arrays[k1[2]].isConstantArray) =>
            \A asg \in Assignments(SymsOf(k1[1]) \cup SymsOf(k2[1])
                                     \cup SymsOf(read_map_[k1])
                                     \cup SymsOf(read_map_[k2])) :
                Eval(k1[1], asg) = Eval(k2[1], asg) =>
                    Eval(read_map_[k1], asg) = Eval(read_map_[k2], asg)

\* C9 witness: a symbolic array of the largest size is resolved from the head
\* of the chain at the symbolic index and at the concrete index
C9_Witness ==
    /\ ~arrays[16].isConstantArray
    /\ arrays[16].size = MaxSize
    /\ \A i \in indices : <<getOrMakeExpr(i), 16, MaxNodes>> \in DOMAIN read_map_

\* C10: the leaf vector a builder builds for a symbolic array is, offset by
\* offset, the one the builder before it built for that array, and every leaf
\* is a named constant of 8 bits.
C10_LeafDeterminism ==
    \A root \in DOMAIN array_variables_ :
        ~arrays[root].isConstantArray =>
            /\ \A i \in DOMAIN array_variables_[root] :
                    /\ array_variables_[root][i][1] = "const"
                    /\ array_variables_[root][i][3] = 8
            /\ root \in DOMAIN previous => array_variables_[root] = previous[root]

\* C10 witness: two builders in a row have built the leaves of both symbolic
\* arrays
C10_Witness ==
    /\ ~arrays[16].isConstantArray
    /\ arrays[16].size = MaxSize
    /\ DOMAIN array_variables_ = ArrayPtrs
    /\ DOMAIN previous = ArrayPtrs

\* C11: for a real update node un the expression stored for (index, root, un),
\* which is the one a read of that key returns, is the conditional whose
\* condition is index == un.index, whose then-branch is un.value and whose
\* else-branch is the expression stored for (index, root, un.next).
C11_UpdateConditional ==
    /\ \A k \in DOMAIN read_map_ :
            k[3] # NULL =>
                LET rest == <<k[1], k[2], nodes[k[3]].next>>
                IN  /\ rest \in DOMAIN read_map_
                    /\ read_map_[k] =
                           <<"ite",
                             <<"eq", k[1], getOrMakeExpr(nodes[k[3]].index)>>,
                             getOrMakeExpr(nodes[k[3]].value),
                             read_map_[rest]>>
    /\ (IsRead /\ call[4] # NULL) =>
            /\ <<call[2], call[3], call[4]>> \in DOMAIN read_map_
            /\ result = read_map_[<<call[2], call[3], call[4]>>]

\* C11 witness: the read from the head of the chain has just been resolved at
\* the symbolic index, over a chain that writes the symbolic index last
C11_Witness ==
    /\ IsRead
    /\ call = <<"getReadForArray", getOrMakeExpr(SymbolicIndex), 16, MaxNodes>>
    /\ nodes[MaxNodes].index = SymbolicIndex
    /\ arrays[16].size >= 1

\* the offsets a conditional chain compares index with, outermost first
RECURSIVE Offsets(_, _)
Offsets(e, index) ==
    IF e[1] = "ite" /\ e[2][1] = "eq" /\ e[2][2] = index /\ e[2][3][1] = "bv"
    THEN <<e[2][3][2]>> \o Offsets(e[4], index)
    ELSE <<>>

\* C12 as stated: the chain of a base read of an array of size N compares
\* index == 0 outermost and the offsets in increasing order going inward.
C12_Original ==
    \A k \in DOMAIN read_map_ :
        k[3] = NULL =>
            Offsets(read_map_[k], k[1]) =
                [i \in 1 .. arrays[k[2]].size |-> i - 1]

\* C12 as amended: the chain of a base read of an array of size N compares
\* index == N-1 outermost and the offsets in decreasing order going inward,
\* offset 0 innermost over the numeral 0, each offset exactly once.
C12_FoldOrder ==
    \A k \in DOMAIN read_map_ :
        k[3] = NULL =>
            Offsets(read_map_[k], k[1]) =
                [i \in 1 .. arrays[k[2]].size |-> arrays[k[2]].size - i]

\* C12 witness: the base read of an array of the largest size is cached for
\* the symbolic index
C12_Witness ==
    \E k \in DOMAIN read_map_ :
        /\ k[3] = NULL
        /\ k[1] = getOrMakeExpr(SymbolicIndex)
        /\ arrays[k[2]].size = MaxSize
        /\ arrays[k[2]].isConstantArray

\* the keys from (index, root, un) toward the base that are not in read_map_,
\* up to the first one that is
RECURSIVE ChainMisses(_, _, _)
ChainMisses(index, root, un) ==
    IF <<index, root, un>> \in DOMAIN read_map_ THEN {}
    ELSE {<<index, root, un>>}
            \cup (IF un = NULL THEN {} ELSE ChainMisses(index, root, nodes[un].next))

\* C13: suffix-closure of read_map_.  A call getReadForArray(index, root, un)
\* adds exactly the keys of the chain from un toward the base up to but
\* excluding the first one already cached (none on a hit), no other operation
\* of a builder adds a key, and afterwards a key of a real node is cached
\* only together with the key of the node's next.
C13_SuffixClosure ==
    [][ call' # <<"Z3IteBuilder">> =>
            /\ DOMAIN read_map_' \ DOMAIN read_map_ =
                    IF call'[1] = "getReadForArray"
                    THEN ChainMisses(call'[2], call'[3], call'[4])
                    ELSE {}
            /\ \A k \in DOMAIN read_map_' :
                    k[3] # NULL =>
                        <<k[1], k[2], nodes[k[3]].next>> \in DOMAIN read_map_' ]_vars

\* C13 witness: the oldest node of the chain is read at the concrete index
\* when the head of the chain is already cached for it, which is a hit: the
\* key of the head is only ever inserted after the key of the oldest node
C13_Witness ==
    /\ IsRead
    /\ call[2][1] = "bv"
    /\ call[3] = 16
    /\ call[4] = 1
    /\ MaxNodes > 1
    /\ <<call[2], 16, MaxNodes>> \in DOMAIN read_map_

\* the expression of a read built without read_map_ and array_variables_
RECURSIVE Uncached(_, _, _)
Uncached(index, root, un) ==
    IF un = NULL
    THEN ite_tree(index,
                  IF arrays[root].isConstantArray
                  THEN constant_leaves(root)
                  ELSE symbolic_leaves(root),
                  arrays[root].size)
    ELSE ite_update(index, un, Uncached(index, root, nodes[un].next))

\* C14: memoization is transparent.  Whatever was resolved before, the
\* expression a read returns, and every expression in read_map_, is the one
\* built from scratch for its index, array and update node.
C14_Transparent ==
    /\ IsRead => result = Uncached(call[2], call[3], call[4])
    /\ \A k \in DOMAIN read_map_ : read_map_[k] = Uncached(k[1], k[2], k[3])

\* C14 witness: the oldest node of the chain is read at the symbolic index
\* when the head of the chain is already cached for it (a hit), by a builder
\* that has also resolved the read of the other array
C14_Witness ==
    /\ IsRead
    /\ call[2] = getOrMakeExpr(SymbolicIndex)
    /\ call[3] = 16
    /\ call[4] = 1
    /\ MaxNodes > 1
    /\ <<call[2], 16, MaxNodes>> \in DOMAIN read_map_
    /\ <<call[2], 32, NULL>> \in DOMAIN read_map_

\* the number of update nodes from un to the end of the chain
RECURSIVE ChainLength(_)
ChainLength(un) == IF un = NULL THEN 0 ELSE 1 + ChainLength(nodes[un].next)

\* the number of conditionals along the else-branches of a chain
RECURSIVE Conditionals(_)
Conditionals(e) == IF e[1] = "ite" THEN 1 + Conditionals(e[4]) ELSE 0

\* C15: termination.  Over a chain of L nodes a call of getReadForArray
\* returns an expression after at most L + 1 nested frames, and a base read
\* it resolves is a chain of exactly N conditionals, one per iteration of the
\* loop over an array of size N.
C15_Termination ==
    [][ call'[1] = "getReadForArray" =>
            LET got == getReadForArray(call'[2], call'[3], call'[4],
                                       read_map_, array_variables_)
                base == <<call'[2], call'[3], NULL>>
            IN  /\ got.result = result'
                /\ result'[1] \in {"ite", "bv"}
                /\ got.depth <= ChainLength(call'[4]) + 1
                /\ base \in DOMAIN read_map_'
                /\ Conditionals(read_map_'[base]) = arrays[call'[3]].size ]_vars

\* C15 witness: the head of the chain has been read at the symbolic index
\* and nothing else is cached, over an array of the largest size
C15_Witness ==
    /\ IsRead
    /\ call = <<"getReadForArray", getOrMakeExpr(SymbolicIndex), 16, MaxNodes>>
    /\ Cardinality(DOMAIN read_map_) = MaxNodes + 1
    /\ arrays[16].size = MaxSize

(* ------------------------------------------------- arrays with long names *)

\* a declared name of the given length
LongName(len) == [i \in 1 .. len |-> "a"]

\* the longest declared name whose leaf names fit the buffer in full, for
\* the addresses and offsets of the model
FitLength ==
    BufSize - 1 - Len(<<"_">> \o FormatP(16) \o <<"_">> \o FormatU(MaxSize - 1))

\* declared names that fit the buffer, that lose the offset, and that lose
\* the address and the offset
LongNames == { LongName(FitLength), LongName(FitLength + 1), LongName(BufSize - 1) }

\* a session whose two arrays are symbolic, of the largest size, and carry
\* the same long declared name
InitLong ==
    /\ threads = [t \in Threads |-> Idle]
    /\ \E n \in LongNames :
            arrays = [a \in ArrayPtrs |->
                        [name |-> n, size |-> MaxSize, isConstantArray |-> FALSE,
                         constantValues |-> <<>>]]
    /\ nodes = [n \in NodePtrs |-> [index |-> NodeIndex(n, 0),
                                     value |-> NodeValue(n),
                                     next |-> n - 1]]
    /\ indices \in { {ConcreteIndex(k), SymbolicIndex} : k \in 0 .. MaxSize }
    /\ read_map_ = <<>>
    /\ array_variables_ = <<>>
    /\ result = <<>>
    /\ call = <<"Z3IteBuilder">>
    /\ builds = [a \in ArrayPtrs |-> 0]
    /\ previous = <<>>

SpecLong == InitLong /\ [][Next]_vars

\* C16: freshness of symbolic leaves.  The leaves built for two distinct
\* offsets of a symbolic array, and the leaves of two symbolic arrays with
\* distinct identities, carry distinct names.
C16_FreshLeaves ==
    \A a, b \in DOMAIN array_variables_ :
        (~arrays[a].isConstantArray /\ ~arrays[b].isConstantArray) =>
            \A i \in DOMAIN array_variables_[a], j \in DOMAIN array_variables_[b] :
                (a # b \/ i # j) =>
                    array_variables_[a][i][2] # array_variables_[b][j][2]

(* --------------------------------------- two threads sharing one builder *)
(* Every lookup and every insert of a cache is one step, taken under the   *)
(* lock; what a thread does between two of them touches only its own       *)
(* frames.                                                                 *)

\* the frame for th.cur returns acc: the frame waiting for it, if any, wraps
\* acc in its conditional and goes on to insert it
Returned(th, acc) ==
    IF th.frames = <<>>
    THEN [th EXCEPT !.pc = "done", !.acc = acc]
    ELSE LET parent == th.frames[Len(th.frames)]
         IN  [th EXCEPT !.pc = "insert",
                        !.cur = parent,
                        !.frames = SubSeq(th.frames, 1, Len(th.frames) - 1),
                        !.acc = ite_update(th.index, parent, acc)]

\* a thread calls getReadForArray for a read expression
T_Call(t, re) ==
    /\ threads[t].pc = "idle"
    /\ threads' = [threads EXCEPT ![t] =
                      [pc |-> "find", index |-> getOrMakeExpr(re.index),
                       root |-> re.updates.root, un |-> re.updates.head,
                       cur |-> re.updates.head, frames |-> <<>>, acc |-> <<>>,
                       vec |-> <<>>, hit |-> FALSE]]
    /\ UNCHANGED <<world, read_map_, array_variables_, result, call, builds, previous>>

\* read_map_.find of the innermost frame: a hit returns the entry, a miss goes
\* on to the base read or to the frame of un->next
T_Find(t) ==
    LET th == threads[t]
        key == ReadKey(th.index, th.root, th.cur)
    IN  /\ th.pc = "find"
        /\ threads' = [threads EXCEPT ![t] =
                IF key \in DOMAIN read_map_
                THEN Returned([th EXCEPT !.hit = (th.frames = <<>>)], read_map_[key])
                ELSE IF th.cur = NULL
                THEN [th EXCEPT !.pc = "array_find"]
                ELSE [th EXCEPT !.frames = Append(th.frames, th.cur),
                                !.cur = nodes[th.cur].next]]
        /\ UNCHANGED <<world, read_map_, array_variables_, result, call, builds, previous>>

\* array_variables_.find: a hit gives the cached vector and the thread folds
\* it; after a miss the thread builds a vector of its own
T_ArrayFind(t) ==
    LET th == threads[t]
    IN  /\ th.pc = "array_find"
        /\ threads' = [threads EXCEPT ![t] =
                IF th.root \in DOMAIN array_variables_
                THEN [th EXCEPT !.pc = "insert",
                                !.vec = array_variables_[th.root],
                                !.acc = ite_tree(th.index, array_variables_[th.root],
                                                 arrays[th.root].size)]
                ELSE [th EXCEPT !.pc = "array_insert",
                                !.vec = IF arrays[th.root].isConstantArray
                                        THEN constant_leaves(th.root)
                                        ELSE symbolic_leaves(th.root)]]
        /\ UNCHANGED <<world, read_map_, array_variables_, result, call, builds, previous>>

\* array_variables_.insert of the vector the thread built, which it then folds
T_ArrayInsert(t) ==
    LET th == threads[t]
    IN  /\ th.pc = "array_insert"
        /\ array_variables_' = insert(array_variables_, th.root, th.vec)
        /\ threads' = [threads EXCEPT ![t] =
                [th EXCEPT !.pc = "insert",
                           !.acc = ite_tree(th.index, th.vec, arrays[th.root].size)]]
        /\ UNCHANGED <<world, read_map_, result, call, builds, previous>>

\* read_map_.insert of the innermost frame, which then returns its result
T_Insert(t) ==
    LET th == threads[t]
    IN  /\ th.pc = "insert"
        /\ read_map_' = insert(read_map_, ReadKey(th.index, th.root, th.cur), th.acc)
        /\ threads' = [threads EXCEPT ![t] = Returned(th, th.acc)]
        /\ UNCHANGED <<world, array_variables_, result, call, builds, previous>>

\* the caller takes the expression
T_Return(t) ==
    /\ threads[t].pc = "done"
    /\ threads' = [threads EXCEPT ![t] = Idle]
    /\ UNCHANGED <<world, read_map_, array_variables_, result, call, builds, previous>>

\* the reads the threads resolve: the array at 16 at the symbolic index under
\* every update list, and the array at 32
ThreadReads == { re \in ReadExprs : re.index = SymbolicIndex }

\* a session of two threads over one array of the largest size with a chain
InitConc ==
    /\ threads = [t \in Threads |-> Idle]
    /\ arrays \in [ArrayPtrs -> { d \in ArrayDescs : d.size = MaxSize }]
    /\ arrays[32] = [name |-> <<"A">>, size |-> MaxSize, isConstantArray |-> FALSE,
                      constantValues |-> <<>>]
    /\ nodes = [n \in NodePtrs |-> [index |-> NodeIndex(n, 0),
                                     value |-> NodeValue(n),
                                     next |-> n - 1]]
    /\ indices = {ConcreteIndex(0), SymbolicIndex}
    /\ read_map_ = <<>>
    /\ array_variables_ = <<>>
    /\ result = <<>>
    /\ call = <<"Z3IteBuilder">>
    /\ builds = [a \in ArrayPtrs |-> 0]
    /\ previous = <<>>

NextConc ==
    \E t \in Threads :
        \/ \E re \in ThreadReads : T_Call(t, re)
        \/ T_Find(t)
        \/ T_ArrayFind(t)
        \/ T_ArrayInsert(t)
        \/ T_Insert(t)
        \/ T_Return(t)

SpecConc == InitConc /\ [][NextConc]_vars

\* C17: with every lookup and every insert of the caches under the lock, in
\* every interleaving a thread that has resolved a key holds the expression
\* read_map_ maps the key to, and keeps holding it whatever the other thread
\* does; so each key has one expression and two callers of one key receive
\* the same one.
C17_SharedBuilder ==
    /\ \A t \in Threads :
            threads[t].pc = "done" =>
                LET key == <<threads[t].index, threads[t].root, threads[t].un>>
                IN  /\ key \in DOMAIN read_map_
                    /\ threads[t].acc = read_map_[key]
    /\ \A t, u \in Threads :
            (/\ threads[t].pc = "done"
             /\ threads[u].pc = "done"
             /\ threads[t].index = threads[u].index
             /\ threads[t].root = threads[u].root
             /\ threads[t].un = threads[u].un) =>
                threads[t].acc = threads[u].acc

\* C17 witness: both threads have resolved the read from the head of the
\* chain and both missed it in read_map_, so each built the expression and
\* called insert for the same key
C17_Witness ==
    \A t \in Threads :
        /\ threads[t].pc = "done"
        /\ threads[t].root = 16
        /\ threads[t].un = MaxNodes
        /\ ~threads[t].hit

====
